---- MODULE Spec2Model ----
(***************************************************************************)
(* yumsync.sync(): the synchronization orchestrator of yumsync.            *)
(*                                                                         *)
(* The model follows src/yumsync/__init__.py line by line.  The main       *)
(* thread of sync() is a process with a program counter (pc); the workers  *)
(* of the multiprocessing pool run repo.sync() concurrently and push       *)
(* events onto the shared manager queue.  progress.Progress and repo.sync  *)
(* are code of the repository that is not part of the sources at hand;     *)
(* they are modelled from the design document (update, NewRepoProgress,    *)
(* the outcomes and emissions of a job).                                   *)
(*                                                                         *)
(* Python values: a dict is a record whose DOMAIN is its key set; an       *)
(* optional value (None or v) is the sequence <<>> or <<v>>; an event      *)
(* payload (a tuple) is a sequence.  Payload details (error text, metadata *)
(* stage) are represented by small integers.                               *)
(***************************************************************************)
EXTENDS Integers, Sequences, FiniteSets, TLC

\* Bounds of the model.
MaxRepos == 2        \* longest repository list given to sync()
MaxProcesses == 2    \* largest pool size (processes=) given to sync()
MaxEmit == 2         \* events pushed onto the queue in one run, all jobs together

VARIABLES
    multiprocess,     \* input: the multiprocess flag
    processes,        \* input: the pool size
    repos,            \* input: the ordered list of repository ids
    vocabulary,       \* input: which events the jobs of this run may emit
    pc,               \* position of the main thread in sync()
    idx,              \* index of the for loop the main thread is in
    exc,              \* the exception that left sync(), "" when none
    exit_status,      \* <<>> or <<status>> once sys.exit() ran
    result,           \* <<>> or <<tuple>> once sync() returned
    pool,             \* "none", "running" or "terminated"
    handlers,         \* TRUE once signal_handler is installed
    job,              \* job[h]: state of the sync job of repos[h]
    process_results,  \* the list of outstanding AsyncResult handles
    queue,            \* the manager queue, oldest item first
    event,            \* the local variable `event` of sync()
    prog,             \* the progress.Progress object
    emitted,          \* history: emitted[r] = events pushed by the job of r
    applied,          \* history: <<src, seq>> of every item taken off the queue
    errored           \* history: repo ids named by applied repo_error events

vars == <<multiprocess, processes, repos, vocabulary, pc, idx, exc, exit_status,
          result, pool, handlers, job, process_results, queue, event, prog,
          emitted, applied, errored>>

inputs == <<multiprocess, processes, repos, vocabulary>>

-----------------------------------------------------------------------------
\* Events

Actions ==
    {"repo_init", "download_end", "repo_metadata", "repo_error", "pkg_exists",
     "link_local_pkg", "repo_complete", "delete_pkg", "repo_group_data"}

\* The actions whose branch reads event['data'][0].
DataActions == {"repo_init", "download_end", "repo_metadata", "repo_error"}

Has(e, key) == key \in DOMAIN e

WellFormed(r) ==
    {[action |-> a, repo_id |-> r, data |-> <<1>>] : a \in DataActions}
        \cup {[action |-> a, repo_id |-> r] : a \in Actions \ DataActions}

MissingData(r) == {[action |-> a, repo_id |-> r] : a \in DataActions}

MissingRepoId ==
    {[action |-> a, data |-> <<1>>] : a \in DataActions}
        \cup {[action |-> a] : a \in Actions \ DataActions}

MissingAction(r) == {[repo_id |-> r, data |-> <<1>>]}

Unrecognized(r) == {[action |-> "bogus", repo_id |-> r, data |-> <<1>>]}

EmptyData(r) == {[action |-> "repo_init", repo_id |-> r, data |-> <<>>]}

\* A download_end event that reports two packages.
TwoPackages(r) == {[action |-> "download_end", repo_id |-> r, data |-> <<2>>]}

Dict(e) == [cls |-> "dict", ev |-> e]

LogRecord == [cls |-> "LogRecord", ev |-> [name |-> "yumsync"]]

Unbound == [cls |-> "unbound", ev |-> [name |-> "event"]]

\* What the job of repository r may push onto the queue.
AllItems(r) ==
    {Dict(e) : e \in WellFormed(r) \cup MissingData(r) \cup MissingRepoId
                       \cup MissingAction(r) \cup Unrecognized(r) \cup EmptyData(r)
                       \cup TwoPackages(r)}
        \cup {LogRecord}

CoreItems(r) ==
    {Dict([action |-> "repo_error", repo_id |-> r, data |-> <<1>>]),
     Dict([action |-> "pkg_exists", repo_id |-> r])}

PkgItems(r) ==
    {Dict([action |-> "pkg_exists", repo_id |-> r]),
     Dict([action |-> "link_local_pkg", repo_id |-> r])}

Emittable(r) ==
    IF vocabulary = "all" THEN AllItems(r)
    ELSE IF vocabulary = "pkg" THEN PkgItems(r)
    ELSE CoreItems(r)

-----------------------------------------------------------------------------
\* progress.Progress

NewRepoProgress ==
    [total_packages |-> <<>>, downloaded |-> 0, deleted |-> 0,
     metadata_ready |-> FALSE, error |-> <<>>]

NewProgress == [repos |-> <<>>, totals |-> [errors |-> 0]]

NoArgs ==
    [set_total |-> <<>>, pkgs_downloaded |-> <<>>, repo_metadata |-> <<>>,
     repo_error |-> <<>>, pkgs_deleted |-> <<>>]

Register(p, repo_id) ==
    IF repo_id \in DOMAIN p.repos
    THEN p
    ELSE [p EXCEPT !.repos = (repo_id :> NewRepoProgress) @@ p.repos]

\* prog.update(repo_id, **kw): the only mutator of the progress records.
\* pkgs_downloaded is the one keyword the caller passes both for download_end
\* and for pkg_exists/link_local_pkg; it advances the counter by its value.
update(p, repo_id, kw) ==
    LET p0 == Register(p, repo_id)
        r0 == p0.repos[repo_id]
        r1 == [r0 EXCEPT
                 !.total_packages =
                     IF kw.set_total # <<>> THEN kw.set_total ELSE @,
                 !.downloaded =
                     IF kw.pkgs_downloaded # <<>> THEN @ + kw.pkgs_downloaded[1] ELSE @,
                 !.deleted =
                     IF kw.pkgs_deleted # <<>> THEN @ + kw.pkgs_deleted[1] ELSE @,
                 !.metadata_ready =
                     IF kw.repo_metadata # <<>> THEN TRUE ELSE @,
                 !.error =
                     IF kw.repo_error # <<>> THEN kw.repo_error ELSE @]
    IN  [repos |-> [p0.repos EXCEPT ![repo_id] = r1],
         totals |-> [errors |-> IF kw.repo_error # <<>>
                                THEN p0.totals.errors + 1
                                ELSE p0.totals.errors]]

-----------------------------------------------------------------------------
\* The body of the drain loop and the failure branch of the poll loop

Ok(p) == [exc |-> "", prog |-> p]

Raise(name, p) == [exc |-> name, prog |-> p]

\* The payload replaced by the constant 1 of the pkg_exists branch.
UpdateFromDataAsOne(p, e, kw) ==
    IF ~Has(e, "repo_id") THEN Raise("KeyError", p)
    ELSE IF Len(e.data) = 0 THEN Raise("IndexError", p)
    ELSE Ok(update(p, e.repo_id, [NoArgs EXCEPT ![kw] = <<1>>]))

\* prog.update(event['repo_id'], <kw>=event['data'][0])
UpdateFromData(p, e, kw) ==
    IF ~Has(e, "repo_id") THEN Raise("KeyError", p)
    ELSE IF Len(e.data) = 0 THEN Raise("IndexError", p)
    ELSE Ok(update(p, e.repo_id, [NoArgs EXCEPT ![kw] = <<e.data[1]>>]))

\* The count passed under a keyword update() does not read.
UpdateByOneIgnored(p, e, kw) ==
    IF ~Has(e, "repo_id") THEN Raise("KeyError", p)
    ELSE Ok(update(p, e.repo_id, NoArgs))

\* prog.update(event['repo_id'], <kw>=1)
UpdateByOne(p, e, kw) ==
    IF ~Has(e, "repo_id") THEN Raise("KeyError", p)
    ELSE Ok(update(p, e.repo_id, [NoArgs EXCEPT ![kw] = <<1>>]))

\* The drain loop without the test of line 131: event['action'] is read at once.
HandleEventNoActionTest(p, item) ==
    IF item.cls = "LogRecord" THEN Ok(p)
    ELSE LET e == item.ev IN
         IF ~Has(e, "action") THEN Raise("KeyError", p)
         ELSE IF e.action = "repo_init" /\ Has(e, "data")
              THEN UpdateFromData(p, e, "set_total")
         ELSE IF e.action = "download_end" /\ Has(e, "data")
              THEN UpdateFromData(p, e, "pkgs_downloaded")
         ELSE IF e.action = "repo_metadata" /\ Has(e, "data")
              THEN UpdateFromData(p, e, "repo_metadata")
         ELSE IF e.action = "repo_error" /\ Has(e, "data")
              THEN UpdateFromData(p, e, "repo_error")
         ELSE IF e.action = "pkg_exists"
              THEN UpdateByOne(p, e, "pkgs_downloaded")
         ELSE IF e.action = "link_local_pkg"
              THEN UpdateByOne(p, e, "pkgs_downloaded")
         ELSE IF e.action = "repo_complete"
              THEN Ok(p)
         ELSE IF e.action = "delete_pkg"
              THEN UpdateByOne(p, e, "pkgs_deleted")
         ELSE Ok(p)

\* The drain loop without the test of line 127: a log record reaches the
\* `'action' in event` of line 131, which a LogRecord does not support.
HandleEventNoLogTest(p, item) ==
    IF item.cls = "LogRecord" THEN Raise("TypeError", p)
    ELSE LET e == item.ev IN
         IF ~Has(e, "action") THEN Ok(p)
         ELSE IF e.action = "repo_init" /\ Has(e, "data")
              THEN UpdateFromData(p, e, "set_total")
         ELSE IF e.action = "download_end" /\ Has(e, "data")
              THEN UpdateFromData(p, e, "pkgs_downloaded")
         ELSE IF e.action = "repo_metadata" /\ Has(e, "data")
              THEN UpdateFromData(p, e, "repo_metadata")
         ELSE IF e.action = "repo_error" /\ Has(e, "data")
              THEN UpdateFromData(p, e, "repo_error")
         ELSE IF e.action = "pkg_exists"
              THEN UpdateByOne(p, e, "pkgs_downloaded")
         ELSE IF e.action = "link_local_pkg"
              THEN UpdateByOne(p, e, "pkgs_downloaded")
         ELSE IF e.action = "repo_complete"
              THEN Ok(p)
         ELSE IF e.action = "delete_pkg"
              THEN UpdateByOne(p, e, "pkgs_deleted")
         ELSE Ok(p)

\* Lines 127-150: what the drain loop does with one item taken off the queue.
HandleEvent(p, item) ==
    IF item.cls = "LogRecord" THEN Ok(p)
    ELSE LET e == item.ev IN
         IF ~Has(e, "action") THEN Ok(p)
         ELSE IF e.action = "repo_init" /\ Has(e, "data")
              THEN UpdateFromData(p, e, "set_total")
         ELSE IF e.action = "download_end" /\ Has(e, "data")
              THEN UpdateFromData(p, e, "pkgs_downloaded")
         ELSE IF e.action = "repo_metadata" /\ Has(e, "data")
              THEN UpdateFromData(p, e, "repo_metadata")
         ELSE IF e.action = "repo_error" /\ Has(e, "data")
              THEN UpdateFromData(p, e, "repo_error")
         ELSE IF e.action = "pkg_exists"
              THEN UpdateByOne(p, e, "pkgs_downloaded")
         ELSE IF e.action = "link_local_pkg"
              THEN UpdateByOne(p, e, "pkgs_downloaded")
         ELSE IF e.action = "repo_complete"
              THEN Ok(p)
         ELSE IF e.action = "delete_pkg"
              THEN UpdateByOne(p, e, "pkgs_deleted")
         ELSE Ok(p)

\* Line 156: prog.update(event['repo_id'], repo_error=event['data'][0]), read
\* from the local `event`, whatever the drain loop left in it.
RecordFailure(p, ev) ==
    IF ev.cls = "unbound" THEN Raise("UnboundLocalError", p)
    ELSE IF ev.cls = "LogRecord" THEN Raise("TypeError", p)
    ELSE IF ~Has(ev.ev, "repo_id") THEN Raise("KeyError", p)
    ELSE IF ~Has(ev.ev, "data") THEN Raise("KeyError", p)
    ELSE UpdateFromData(p, ev.ev, "repo_error")

-----------------------------------------------------------------------------
\* The manager queue and the pool

Tag(item, r, n) == [cls |-> item.cls, ev |-> item.ev, src |-> r, seq |-> n]

Untag(it) == [cls |-> it.cls, ev |-> it.ev]

\* A queue that hands out the newest item first.
QueuePutFront(q, it) == <<it>> \o q

\* queue.put(item): the manager queue is first in, first out.
QueuePut(q, it) == Append(q, it)

\* queue.get(): the oldest item.
QueueFront(q) == Head(q)

QueueRest(q) == Tail(q)

Handles == 1..Len(repos)

Running == {h \in Handles : job[h] = "running"}

Resolved(h) == job[h] \in {"ok", "failed"}

\* The workers are followed while sync() runs: until it returns, raises or exits.
InSync == pc \notin {"returned", "raised", "exited"}

\* A pool that starts every submitted task at once.
HasIdleWorkerUnbounded == TRUE

\* Pool(processes=processes): a task starts only on an idle worker.
HasIdleWorker == Cardinality(Running) < processes

\* Tasks leave the pool's task queue in submission order.
NextTask(h) == job[h] = "queued" /\ \A g \in Handles : job[g] = "queued" => h <= g

TotalEmitted == Len(applied) + Len(queue)

\* while len(process_results) > 0
LoopTop(pr) == IF Len(pr) > 0 THEN "drain" ELSE "return"

\* list.remove of the element at position k
RemoveAt(pr, k) == [j \in 1..(Len(pr) - 1) |-> IF j < k THEN pr[j] ELSE pr[j + 1]]

-----------------------------------------------------------------------------
\* Initial states

Start ==
    /\ pc = "start"
    /\ idx = 0
    /\ exc = ""
    /\ exit_status = <<>>
    /\ result = <<>>
    /\ pool = "none"
    /\ handlers = FALSE
    /\ job = [h \in 1..Len(repos) |-> "unsubmitted"]
    /\ process_results = <<>>
    /\ queue = <<>>
    /\ event = Unbound
    /\ prog = NewProgress
    /\ emitted = [r \in 1..Len(repos) |-> 0]
    /\ applied = <<>>
    /\ errored = {}

\* Any list of up to MaxRepos repositories with distinct ids, any pool size,
\* jobs that emit well-formed repo_error and pkg_exists events.
Init ==
    /\ multiprocess \in BOOLEAN
    /\ processes \in 1..MaxProcesses
    /\ \E n \in 0..MaxRepos : repos = [k \in 1..n |-> k]
    /\ vocabulary = "core"
    /\ Start

\* One repository on a pool of one worker, whose job may emit every kind of
\* event, well-formed or not.
InitApply ==
    /\ multiprocess \in BOOLEAN
    /\ processes = 1
    /\ \E n \in 0..1 : repos = [k \in 1..n |-> k]
    /\ vocabulary = "all"
    /\ Start

\* Any list of up to MaxRepos repositories, any pool size, jobs that report
\* packages found or linked locally.
InitPkg ==
    /\ multiprocess \in BOOLEAN
    /\ processes \in 1..MaxProcesses
    /\ \E n \in 0..MaxRepos : repos = [k \in 1..n |-> k]
    /\ vocabulary = "pkg"
    /\ Start

-----------------------------------------------------------------------------
\* Sequential mode (lines 65-71)

\* Lines 65-66: multiprocess == False.
SeqEnter ==
    /\ pc = "start"
    /\ multiprocess = FALSE
    /\ pc' = "seq_loop"
    /\ idx' = 1
    /\ UNCHANGED <<inputs, exc, exit_status, result, pool, handlers, job,
                   process_results, queue, event, prog, emitted, applied, errored>>

\* Lines 67-69: the next repository's sync() is called on the caller's thread.
SeqSyncCall ==
    /\ pc = "seq_loop"
    /\ idx <= Len(repos)
    /\ job' = [job EXCEPT ![idx] = "running"]
    /\ pc' = "seq_sync"
    /\ UNCHANGED <<inputs, idx, exc, exit_status, result, pool, handlers,
                   process_results, queue, event, prog, emitted, applied, errored>>

\* Lines 69-70: repo.sync() returns; the loop goes on with the next repository.
SeqSyncReturn ==
    /\ pc = "seq_sync"
    /\ job' = [job EXCEPT ![idx] = "ok"]
    /\ idx' = idx + 1
    /\ pc' = "seq_loop"
    /\ UNCHANGED <<inputs, exc, exit_status, result, pool, handlers,
                   process_results, queue, event, prog, emitted, applied, errored>>

\* Line 69: repo.sync() raises; nothing in sync() catches it.
SeqSyncRaise ==
    /\ pc = "seq_sync"
    /\ job' = [job EXCEPT ![idx] = "failed"]
    /\ exc' = "Exception"
    /\ pc' = "raised"
    /\ UNCHANGED <<inputs, idx, exit_status, result, pool, handlers,
                   process_results, queue, event, prog, emitted, applied, errored>>

\* Line 71: sys.exit(0) after the loop.
SeqExit ==
    /\ pc = "seq_loop"
    /\ idx > Len(repos)
    /\ exit_status' = <<0>>
    /\ pc' = "exited"
    /\ UNCHANGED <<inputs, idx, exc, result, pool, handlers, job,
                   process_results, queue, event, prog, emitted, applied, errored>>

-----------------------------------------------------------------------------
\* Parallel mode: the main thread (lines 73-166)

\* Lines 73-99: the Progress object, the queue, the pool, the signal handlers.
Setup ==
    /\ pc = "start"
    /\ multiprocess = TRUE
    /\ prog' = NewProgress
    /\ queue' = <<>>
    /\ pool' = "running"
    /\ process_results' = <<>>
    /\ handlers' = TRUE
    /\ idx' = 1
    /\ pc' = IF Len(repos) > 0 THEN "dispatch" ELSE LoopTop(<<>>)
    /\ UNCHANGED <<inputs, exc, exit_status, result, job, event, emitted,
                   applied, errored>>

\* A dispatch that submits the job without line 107.
DispatchUnregistered ==
    /\ pc = "dispatch"
    /\ idx <= Len(repos)
    /\ job' = [job EXCEPT ![idx] = "queued"]
    /\ process_results' = Append(process_results, idx)
    /\ idx' = idx + 1
    /\ pc' = IF idx < Len(repos) THEN "dispatch" ELSE LoopTop(process_results')
    /\ UNCHANGED <<inputs, exc, exit_status, result, pool, handlers, queue,
                   event, prog, emitted, applied, errored>>

\* A dispatch that records the handle under both branches of lines 114-117.
DispatchTwice ==
    /\ pc = "dispatch"
    /\ idx <= Len(repos)
    /\ prog' = update(prog, repos[idx], NoArgs)
    /\ job' = [job EXCEPT ![idx] = "queued"]
    /\ process_results' = Append(Append(process_results, idx), idx)
    /\ idx' = idx + 1
    /\ pc' = IF idx < Len(repos) THEN "dispatch" ELSE LoopTop(process_results')
    /\ UNCHANGED <<inputs, exc, exit_status, result, pool, handlers, queue,
                   event, emitted, applied, errored>>

\* Lines 105-117: register the repository, then submit its job to the pool.
Dispatch ==
    /\ pc = "dispatch"
    /\ idx <= Len(repos)
    /\ prog' = update(prog, repos[idx], NoArgs)
    /\ job' = [job EXCEPT ![idx] = "queued"]
    /\ process_results' = Append(process_results, idx)
    /\ idx' = idx + 1
    /\ pc' = IF idx < Len(repos) THEN "dispatch" ELSE LoopTop(process_results')
    /\ UNCHANGED <<inputs, exc, exit_status, result, pool, handlers, queue,
                   event, emitted, applied, errored>>

IsRepoError(it) ==
    /\ it.cls = "dict"
    /\ Has(it.ev, "action") /\ it.ev.action = "repo_error"
    /\ Has(it.ev, "data") /\ Has(it.ev, "repo_id")
    /\ Len(it.ev.data) > 0

\* Lines 125-150, one pass of the inner while: take one item and handle it.
DrainEvent ==
    /\ pc = "drain"
    /\ queue # <<>>
    /\ LET it == QueueFront(queue)
           r == HandleEvent(prog, it)
       IN  /\ queue' = QueueRest(queue)
           /\ event' = Untag(it)
           /\ prog' = r.prog
           /\ exc' = r.exc
           /\ pc' = IF r.exc = "" THEN "drain" ELSE "raised"
           /\ applied' = Append(applied, <<it.src, it.seq>>)
           /\ errored' = IF IsRepoError(it) THEN errored \cup {it.ev.repo_id}
                                            ELSE errored
    /\ UNCHANGED <<inputs, idx, exit_status, result, pool, handlers, job,
                   process_results, emitted>>

\* Line 125 finds the queue empty: on to the for loop of line 151.
DrainDone ==
    /\ pc = "drain"
    /\ queue = <<>>
    /\ idx' = 1
    /\ pc' = "poll"
    /\ UNCHANGED <<inputs, exc, exit_status, result, pool, handlers, job,
                   process_results, queue, event, prog, emitted, applied, errored>>

\* After one step of `for proc in process_results` at position idx: the list
\* iterator moves on by one whatever was removed.
PollAdvance(pr) ==
    /\ idx' = idx + 1
    /\ pc' = IF idx + 1 <= Len(pr) THEN "poll" ELSE LoopTop(pr)

\* Lines 152-154, 158: the job is ready and successful.
PollSuccess ==
    /\ pc = "poll"
    /\ idx <= Len(process_results)
    /\ job[process_results[idx]] = "ok"
    /\ process_results' = RemoveAt(process_results, idx)
    /\ PollAdvance(process_results')
    /\ UNCHANGED <<inputs, exc, exit_status, result, pool, handlers, job,
                   queue, event, prog, emitted, applied, errored>>

\* Lines 152, 155-158: the job is ready and not successful.
PollFailure ==
    /\ pc = "poll"
    /\ idx <= Len(process_results)
    /\ job[process_results[idx]] = "failed"
    /\ LET r == RecordFailure(prog, event)
       IN  IF r.exc = ""
           THEN /\ prog' = r.prog
                /\ process_results' = RemoveAt(process_results, idx)
                /\ PollAdvance(process_results')
                /\ UNCHANGED exc
           ELSE /\ exc' = r.exc
                /\ pc' = "raised"
                /\ UNCHANGED <<prog, process_results, idx>>
    /\ UNCHANGED <<inputs, exit_status, result, pool, handlers, job,
                   queue, event, emitted, applied, errored>>

\* Line 152: proc.ready() is false.
PollNotReady ==
    /\ pc = "poll"
    /\ idx <= Len(process_results)
    /\ ~Resolved(process_results[idx])
    /\ PollAdvance(process_results)
    /\ UNCHANGED <<inputs, exc, exit_status, result, pool, handlers, job,
                   process_results, queue, event, prog, emitted, applied, errored>>

\* Lines 163-166: the loop is over, sync() returns (#repos, #fail); the
\* elapsed time is not modelled.
Return ==
    /\ pc = "return"
    /\ result' = << <<Len(repos), prog.totals.errors>> >>
    /\ pc' = "returned"
    /\ UNCHANGED <<inputs, idx, exc, exit_status, pool, handlers, job,
                   process_results, queue, event, prog, emitted, applied, errored>>

\* Workers started without the initializer: SIGINT keeps its default.
init_worker_missing == [SIGINT |-> "SIG_DFL", SIGTERM |-> "SIG_DFL"]

\* Lines 50-51, run in every worker (initializer= of line 83): the worker's
\* disposition of each signal.  SIGINT is ignored, SIGTERM is left alone.
init_worker == [SIGINT |-> "SIG_IGN", SIGTERM |-> "SIG_DFL"]

\* A signal reaches the workers: a worker that does not ignore it gives its
\* job up by itself.
WorkersOnSignal(j, sig) ==
    [h \in DOMAIN j |-> IF j[h] = "running" /\ init_worker[sig] # "SIG_IGN"
                         THEN "interrupted" ELSE j[h]]

\* A pool that is only closed: queued tasks are dropped, running jobs go on.
TerminateQueuedOnly(j) == [h \in DOMAIN j |-> IF j[h] = "queued" THEN "killed" ELSE j[h]]

\* pool.terminate(): every worker process is killed.
Terminate(j) == [h \in DOMAIN j |-> IF j[h] \in {"queued", "running"} THEN "killed" ELSE j[h]]

\* Lines 86-95: SIGTERM reaches the main process, or SIGINT reaches the main
\* process and the workers at once (the terminal's process group), while
\* sync() runs with the handler installed: pool.terminate(), then sys.exit(1).
signal_handler ==
    /\ handlers
    /\ pc \in {"dispatch", "drain", "poll", "return"}
    /\ pool' = "terminated"
    /\ \E sig \in {"SIGINT", "SIGTERM"} :
          job' = Terminate(IF sig = "SIGINT" THEN WorkersOnSignal(job, sig) ELSE job)
    /\ exit_status' = <<1>>
    /\ pc' = "exited"
    /\ UNCHANGED <<inputs, idx, exc, result, handlers, process_results, queue,
                   event, prog, emitted, applied, errored>>

-----------------------------------------------------------------------------
\* Parallel mode: the pool's workers

\* A worker takes the next task: repo.sync(workers=..., queue=queue) starts.
JobStart(h) ==
    /\ InSync
    /\ pool = "running"
    /\ NextTask(h)
    /\ HasIdleWorker
    /\ job' = [job EXCEPT ![h] = "running"]
    /\ UNCHANGED <<inputs, pc, idx, exc, exit_status, result, pool, handlers,
                   process_results, queue, event, prog, emitted, applied, errored>>

\* The running job of repos[h] pushes an event or a log record.
JobEmit(h) ==
    /\ InSync
    /\ pool = "running"
    /\ job[h] = "running"
    /\ TotalEmitted < MaxEmit
    /\ \E item \in Emittable(repos[h]) :
          queue' = QueuePut(queue, Tag(item, repos[h], emitted[repos[h]] + 1))
    /\ emitted' = [emitted EXCEPT ![repos[h]] = @ + 1]
    /\ UNCHANGED <<inputs, pc, idx, exc, exit_status, result, pool, handlers,
                   job, process_results, event, prog, applied, errored>>

\* repo.sync() ends in its worker: the AsyncResult becomes ready, successful
\* when it returned and not successful when it raised.
JobResolve(h) ==
    /\ InSync
    /\ pool = "running"
    /\ job[h] = "running"
    /\ \E outcome \in {"ok", "failed"} : job' = [job EXCEPT ![h] = outcome]
    /\ UNCHANGED <<inputs, pc, idx, exc, exit_status, result, pool, handlers,
                   process_results, queue, event, prog, emitted, applied, errored>>

-----------------------------------------------------------------------------

Next ==
    \/ SeqEnter
    \/ SeqSyncCall
    \/ SeqSyncReturn
    \/ SeqSyncRaise
    \/ SeqExit
    \/ Setup
    \/ Dispatch
    \/ DrainEvent
    \/ DrainDone
    \/ PollSuccess
    \/ PollFailure
    \/ PollNotReady
    \/ Return
    \/ signal_handler
    \/ \E h \in Handles : JobStart(h)
    \/ \E h \in Handles : JobEmit(h)
    \/ \E h \in Handles : JobResolve(h)

Spec == Init /\ [][Next]_vars

SpecApply == InitApply /\ [][Next]_vars

SpecPkg == InitPkg /\ [][Next]_vars

-----------------------------------------------------------------------------
\* Properties

Ended == pc \in {"returned", "raised", "exited"}

FailedRepos == {repos[h] : h \in {g \in Handles : job[g] = "failed"}}

\* The main thread takes the oldest item off the queue (DrainEvent).
TakesItem == pc = "drain" /\ queue # <<>> /\ queue' = QueueRest(queue)

\* C1: in sequential mode every repository of the list has been attempted
\* when the run ends, also when the sync of an earlier one raised.
C1_SequentialAttemptsAll ==
    (~multiprocess /\ Ended) => \A h \in Handles : job[h] # "unsubmitted"

\* C2: in parallel mode the jobs running in workers never outnumber the
\* pool size; the others wait in the pool's task queue.
C2_ActiveJobsBounded ==
    multiprocess => Cardinality(Running) <= processes

C2_Witness ==
    /\ multiprocess
    /\ Cardinality(Running) = processes
    /\ \E h \in Handles : job[h] = "queued"

\* C3: a parallel run that no signal interrupts ends only by returning
\* (#repos, #fail) with every handle removed and every job resolved, also
\* when jobs resolve as failure.
C3_ParallelRunReturns ==
    (multiprocess /\ Ended /\ exit_status = <<>>) =>
        /\ pc = "returned"
        /\ process_results = <<>>
        /\ \A h \in Handles : Resolved(h)
        /\ result = << <<Len(repos), prog.totals.errors>> >>

\* C4: the failed count sync() returns is the number of distinct repositories
\* that had a repo_error event applied or whose job resolved as failure.
C4_FailedCountOncePerRepo ==
    pc = "returned" => result[1][2] = Cardinality(errored \cup FailedRepos)

\* C5: a poll step that records the failure of a job records it in the
\* progress record of that job's repository and changes no other record.
C5_FailureOnOwnRepo ==
    [][(PollFailure /\ exc' = "") =>
          LET r == repos[process_results[idx]]
          IN  /\ prog'.repos[r].error # <<>>
              /\ \A o \in DOMAIN prog.repos \ {r} : prog'.repos[o] = prog.repos[o]]_vars

\* C6: when sync() returns, every event a job pushed has been taken off the
\* queue exactly once and none is left in it.
C6_EveryEventAppliedOnce ==
    pc = "returned" =>
        /\ queue = <<>>
        /\ \A r \in DOMAIN emitted : \A n \in 1..emitted[r] :
              Cardinality({k \in 1..Len(applied) : applied[k] = <<r, n>>}) = 1

C8_SignalAborts ==
    exit_status = <<1>> =>
        /\ pc = "exited"
        /\ pool = "terminated"
        /\ \A h \in Handles : job[h] \notin {"queued", "running"}
        /\ result = <<>>

C8_Witness ==
    /\ exit_status = <<1>>
    /\ \E h \in Handles : job[h] = "killed"
    /\ \E h \in Handles : job[h] \in {"ok", "failed"}
    /\ queue # <<>>

\* An event without an action field, or whose action is not a known one.
Ignorable(it) ==
    it.cls = "dict" /\ (~Has(it.ev, "action") \/ it.ev.action \notin Actions)

\* C9: draining an event with no action, or with an unknown action, raises
\* nothing, leaves the progress object as it is and stays in the drain loop.
C9_UnknownEventIgnored ==
    [][(TakesItem /\ Ignorable(QueueFront(queue))) =>
          (prog' = prog /\ exc' = "" /\ pc' = "drain")]_vars

C9_Witness ==
    /\ pc = "drain"
    /\ Len(applied) = 2
    /\ Ignorable(event)
    /\ \E r \in DOMAIN prog.repos : prog.repos[r].downloaded = 1

\* An event with a known action that lacks repo_id, or lacks the data its
\* action needs.
LacksField(it) ==
    /\ it.cls = "dict"
    /\ Has(it.ev, "action") /\ it.ev.action \in Actions
    /\ \/ ~Has(it.ev, "repo_id")
       \/ it.ev.action \in DataActions /\ ~Has(it.ev, "data")

\* C10: draining an event with a known action that lacks a required field
\* raises nothing, changes no progress record and stays in the drain loop.
C10_IncompleteEventDropped ==
    [][(TakesItem /\ LacksField(QueueFront(queue))) =>
          (prog' = prog /\ exc' = "" /\ pc' = "drain")]_vars

\* A download_end event with its repo_id and a payload.
DownloadEnd(it) ==
    /\ it.cls = "dict"
    /\ Has(it.ev, "action") /\ it.ev.action = "download_end"
    /\ Has(it.ev, "repo_id") /\ Has(it.ev, "data")
    /\ Len(it.ev.data) > 0

AppliedOf(r) == Cardinality({k \in 1..Len(applied) : applied[k][1] = r})

C13_CountersWithinTotal ==
    \A r \in DOMAIN prog.repos :
        prog.repos[r].total_packages # <<>> =>
            prog.repos[r].downloaded + prog.repos[r].deleted
                <= prog.repos[r].total_packages[1]

Registered(r) == r \in DOMAIN prog.repos

\* C14: in parallel mode every submitted job, every outstanding handle and
\* every event pushed or applied belongs to a registered repository.
C14_RegisteredBeforeSubmitted ==
    multiprocess =>
        /\ \A h \in Handles : job[h] # "unsubmitted" => Registered(repos[h])
        /\ \A k \in 1..Len(process_results) : Registered(repos[process_results[k]])
        /\ \A k \in 1..Len(queue) :
              Has(queue[k].ev, "repo_id") => Registered(queue[k].ev.repo_id)
        /\ \A k \in 1..Len(applied) : Registered(applied[k][1])

C14_Witness ==
    /\ multiprocess
    /\ \E h \in Handles : job[h] = "queued" /\ Registered(repos[h])
    /\ Len(applied) >= 1
    /\ queue # <<>>

Outstanding(h) == \E k \in 1..Len(process_results) : process_results[k] = h

NoDuplicates(pr) ==
    \A j \in 1..Len(pr) : \A k \in 1..Len(pr) : pr[j] = pr[k] => j = k

\* C15: a handle leaves the outstanding list only once its job has resolved,
\* the list never holds a handle twice, the loop is left only with the list
\* empty, and a run that no signal interrupts ends with no resolved handle
\* still outstanding.
C15_ResolvedHandlesRemoved ==
    multiprocess =>
        /\ \A h \in Handles :
              (job[h] # "unsubmitted" /\ ~Outstanding(h)) => Resolved(h)
        /\ NoDuplicates(process_results)
        /\ (pc \in {"return", "returned"} => process_results = <<>>)
        /\ (Ended /\ exit_status = <<>>) =>
              \A h \in Handles : Resolved(h) => ~Outstanding(h)

\* C16: in parallel mode each repository is submitted once: after the
\* dispatch loop every repository has a job, no handle is listed twice, a
\* job that has ended never runs again and a removed handle never comes back.
C16_OneJobPerRepository ==
    /\ [](multiprocess =>
            /\ NoDuplicates(process_results)
            /\ (pc = "dispatch" =>
                   \A h \in Handles : (h < idx) <=> (job[h] # "unsubmitted"))
            /\ (pc \in {"drain", "poll", "return", "returned"} =>
                   \A h \in Handles : job[h] # "unsubmitted")
            /\ \A h \in Handles :
                   job[h] \in {"queued", "running"} => Outstanding(h))
    /\ [][\A h \in Handles :
             /\ job[h] \in {"ok", "failed", "killed"} => job'[h] = job[h]
             /\ (job[h] # "unsubmitted" /\ ~Outstanding(h)) =>
                    ~(\E k \in 1..Len(process_results') : process_results'[k] = h)]_vars

C16_Witness ==
    /\ multiprocess
    /\ pc \in {"drain", "poll"}
    /\ Len(process_results) >= 1
    /\ \E h \in Handles : Resolved(h) /\ ~Outstanding(h)

\* C17: draining a log record changes nothing of the progress object, raises
\* nothing and stays in the drain loop with the items behind it.
C17_LogRecordBypassesProgress ==
    [][(TakesItem /\ QueueFront(queue).cls = "LogRecord") =>
          (prog' = prog /\ exc' = "" /\ pc' = "drain")]_vars

C17_Witness ==
    /\ pc = "drain"
    /\ event = LogRecord
    /\ Len(applied) = 1
    /\ queue # <<>>

\* C18: in sequential mode at most one job runs, a job starts only after all
\* earlier ones have ended, there is no pool, queue content or signal
\* handler, and a run that has attempted every repository has exited with
\* status 0.
C18_SequentialOneByOne ==
    ~multiprocess =>
        /\ Cardinality(Running) <= 1
        /\ \A h \in Handles : job[h] # "unsubmitted" =>
              \A g \in 1..(h - 1) : job[g] \in {"ok", "failed"}
        /\ pool = "none" /\ ~handlers /\ queue = <<>>
        /\ (Ended /\ \A h \in Handles : job[h] \in {"ok", "failed"}) =>
              exit_status = <<0>>

\* C19: no worker gives its job up on an interrupt by itself; a job is only
\* ever stopped by the pool termination of the main process's handler.
C19_WorkersIgnoreInterrupt ==
    multiprocess =>
        \A h \in Handles :
            /\ job[h] # "interrupted"
            /\ job[h] = "killed" => (pool = "terminated" /\ exit_status = <<1>>)

C19_Witness ==
    /\ processes >= 2
    /\ exit_status = <<1>>
    /\ Cardinality({h \in Handles : job[h] = "killed"}) >= 2
    /\ Len(applied) + Len(queue) = MaxEmit
    /\ \A r \in DOMAIN emitted : emitted[r] >= 1

\* C20: a poll step that finds a failed job completes without raising and
\* removes the handle, whatever the drain loop left in `event`.
C20_FailureRecordedWhateverEvent ==
    [][PollFailure =>
          (exc' = "" /\ process_results' = RemoveAt(process_results, idx))]_vars

====
